---- MODULE Spec2Model ----
(***************************************************************************)
(* TaskRouterX: the scheduling and execution pipeline.                     *)
(*                                                                         *)
(*   core/queue.py      TaskQueue        (in-memory FIFO of task ids)      *)
(*   core/scheduler.py  FIFO / Priority / MinCost select_worker            *)
(*   core/runner.py     SchedulerRunner  (the dispatch loop)               *)
(*   core/worker.py     WorkerSimulator  (executor jobs: claim, release)   *)
(*   api/main.py        create_task, cancel_task, switch_algorithm         *)
(*                                                                         *)
(* The store is the shared state.  Every db.commit() is one atomic step;   *)
(* what a session read before its commit is kept in the reader's local     *)
(* state, because the ORM writes back the value computed from that read    *)
(* (UPDATE ... SET current_load = <read value + 1>), not a delta.          *)
(***************************************************************************)
EXTENDS Integers, Sequences, FiniteSets, TLC

\* ---------------------------------------------------------------- bounds
MaxTasks == 2          \* tasks submitted in one run
MaxRequeues == 1       \* re-enqueues by the dispatch loop in one run
MaxEnqueued == MaxTasks + MaxRequeues
MaxCalls == 6          \* ids offered to a TaskQueue on its own
MaxQueue == 2          \* maxsize of the bounded TaskQueue
MaxPools == 2          \* pools in a snapshot handed to a policy on its own
MaxSelects == 2        \* successive calls of a policy on the same arguments
MaxLoops == 2          \* dispatch threads launched over the runner's life
MaxBatch == 2          \* tasks in a batch handed to a route() of its own
MaxStoreErrors == 1    \* store exceptions met by the dispatch loop in one run

\* ------------------------------------------------------- program constants
NoPool == 0            \* select_worker returning None
HighPriority == 7      \* PriorityScheduler: priority >= 7
MediumPriority == 4    \* PriorityScheduler: priority >= 4
NotFound == 404        \* HTTPException(status_code=404)
BadRequest == 400      \* HTTPException(status_code=400)
Created == 201         \* create_task: status_code=HTTP_201_CREATED

Algorithms == {"fifo", "priority", "min_cost"}

\* Inputs of a submission in the pipeline: with the seed below a us-east
\* task is placed in its own region while that pool is free and falls back
\* to us-west when it is full.
TaskRegions == {"us-east"}
TaskPriorities == {5}

\* Seed of the worker_pools table (init_db), scaled down: cost_per_unit is
\* in cents, capacities are small enough for MaxTasks tasks to fill a pool.
SeedEast == [name |-> "us-east-cpu-pool", region |-> "us-east",
             cost_per_unit |-> 50, capacity |-> 1, current_load |-> 0]
SeedWest == [name |-> "us-west-cpu-pool", region |-> "us-west",
             cost_per_unit |-> 60, capacity |-> 2, current_load |-> 0]
SeedConfigs == { <<SeedEast>>, <<SeedEast, SeedWest>> }

\* A deployment without a us-east pool: a us-east task is placed by FIFO
\* in the first free pool (us-west) and by MinCost in the cheapest
\* (eu-west).
SeedEU == [name |-> "eu-west-cpu-pool", region |-> "eu-west",
           cost_per_unit |-> 55, capacity |-> 1, current_load |-> 0]
SwitchConfigs == { <<SeedEast>>, <<SeedWest, SeedEU>> }

\* the algorithm the operator switches to (S6: start under fifo, switch to
\* min_cost)
SwitchTargets == {"min_cost"}

VARIABLES
    tasks,          \* store: tasks table, a sequence indexed by task id
    logs,           \* store: schedule_logs, per task the sequence of entries
    pools,          \* store: worker_pools table, a sequence indexed by pool id
    task_queue,     \* the TaskQueue: [queue, maxsize, stats]
    running,        \* SchedulerRunner._running
    algorithm_type, \* SchedulerRunner.algorithm_type
    scheduler,      \* the local `scheduler` of SchedulerRunner._run
    rstats,         \* SchedulerRunner._stats
    rpc,            \* dispatch loop: position
    rtask,          \* dispatch loop: task id in hand (0 if none)
    rpool,          \* dispatch loop: selected pool id
    ralg,           \* dispatch loop: value assigned to task.algorithm_used
    exec,           \* executor jobs, one per task id (locals are cleared
                    \* when they go out of scope)
    apc,            \* API event loop: position
    atask,          \* API event loop: task id of the request being served
    aresp,          \* API event loop: status code of the last create_task
                    \* response (0 before the first)
    dispatchOrder,  \* history: task ids in the order they were dispatched
    noneReturned,   \* history: some selection has returned None
    dequeuedUnder,  \* history: algorithm_type at the dequeue of the task in hand
    accepted,       \* history: ids for which enqueue returned True, in order
    returned,       \* history: ids returned by dequeue, in order
    lastResult,     \* history: what the last queue call returned
    callerId,       \* queue callers: the next fresh id a producer offers
    qpc,            \* queue callers: per thread, its position in a call
    ptask,          \* policy callers: the task handed to select_worker
    snapshot,       \* policy callers: the pool list handed to select_worker
    pstrategy,      \* policy callers: the strategy under call
    results,        \* policy callers: what the successive calls returned
    loops,          \* runner life: per launched _run thread, its position
    thread,         \* runner life: SchedulerRunner._thread (0 is None)
    caller,         \* runner life: per calling thread, its position in
                    \* start() or stop()
    refused,        \* history: status code of the last refused cancel
                    \* (0 before the first)
    batch,          \* route callers: the task list handed to route()
    bpools,         \* route callers: the pool list handed to route()
    routed          \* route callers: what the call did (NotRouted before)

\* history of the calls made on a TaskQueue by its producers and consumer
callvars == <<accepted, returned, lastResult, callerId, qpc>>

\* arguments and results of the calls made on the policies on their own
polvars == <<ptask, snapshot, pstrategy, results>>

\* the threads of the runner when start() and stop() are called at will
lifevars == <<loops, thread, caller>>

\* arguments and outcome of a call of a batch route() on its own
batchvars == <<batch, bpools, routed>>

\* what the pipeline leaves alone
benchvars == <<callvars, polvars, lifevars, batchvars, refused>>

\* the store, the runner, the executor jobs and the API
corevars == <<tasks, logs, pools, running, algorithm_type, scheduler, rstats,
              rpc, rtask, rpool, ralg, exec, apc, atask, aresp,
              dispatchOrder, noneReturned, dequeuedUnder>>

\* everything but the TaskQueue and the history of its calls
pipevars == <<corevars, polvars, lifevars, batchvars, refused>>

vars == <<tasks, logs, pools, task_queue, running, algorithm_type, scheduler,
          rstats, rpc, rtask, rpool, ralg, exec, apc, atask, aresp,
          dispatchOrder, noneReturned, dequeuedUnder, callvars, polvars,
          lifevars, batchvars, refused>>

\* ------------------------------------------------------------- helpers
Max(a, b) == IF a >= b THEN a ELSE b

TaskIds == 1..Len(tasks)
PoolIds == 1..Len(pools)

InQueue(t) == \E i \in 1..Len(task_queue.queue) : task_queue.queue[i] = t

HasLog(t, ev) == \E i \in 1..Len(logs[t]) : logs[t][i].event_type = ev

\* ------------------------------------------------------ core/worker.py
can_accept_task_Loose(pool) == pool.current_load <= pool.capacity

can_accept_task(pool) == pool.current_load < pool.capacity

get_available_capacity(pool) == Max(0, pool.capacity - pool.current_load)

\* ---------------------------------------------------- core/scheduler.py
\* A pool list is a sequence; the result is an index into it, or NoPool.
\* min()/max() of Python return the first extremal element in iteration
\* order.
FirstOf(S) == CHOOSE i \in S : \A j \in S : i <= j

FreeIn(task, ps) ==
    {i \in 1..Len(ps) : ps[i].region = task.region /\ can_accept_task(ps[i])}

FreeAny(ps) == {i \in 1..Len(ps) : can_accept_task(ps[i])}

LastOf(S) == CHOOSE i \in S : \A j \in S : i >= j

MinCostOf_Last(S, ps) ==
    LastOf({i \in S : \A j \in S : ps[i].cost_per_unit <= ps[j].cost_per_unit})

MinCostOf(S, ps) ==
    FirstOf({i \in S : \A j \in S : ps[i].cost_per_unit <= ps[j].cost_per_unit})

BalancedLeq_CostOnly(a, b) == a.cost_per_unit <= b.cost_per_unit

\* key (cost_per_unit, -capacity), compared lexicographically
BalancedLeq(a, b) ==
    \/ a.cost_per_unit < b.cost_per_unit
    \/ a.cost_per_unit = b.cost_per_unit /\ (0 - a.capacity) <= (0 - b.capacity)

BalancedOf(S, ps) ==
    FirstOf({i \in S : \A j \in S : BalancedLeq(ps[i], ps[j])})

MaxAvailOf(S, ps) ==
    FirstOf({i \in S : \A j \in S :
        get_available_capacity(ps[i]) >= get_available_capacity(ps[j])})

FIFOSelect_NoFallback(task, ps) ==
    IF FreeIn(task, ps) # {} THEN FirstOf(FreeIn(task, ps))
    ELSE NoPool

FIFOSelect(task, ps) ==
    IF FreeIn(task, ps) # {} THEN FirstOf(FreeIn(task, ps))
    ELSE IF FreeAny(ps) # {} THEN FirstOf(FreeAny(ps))
    ELSE NoPool

PrioritySelect(task, ps) ==
    LET available == IF FreeIn(task, ps) # {} THEN FreeIn(task, ps)
                     ELSE FreeAny(ps)
    IN  IF available = {} THEN NoPool
        ELSE IF task.priority >= HighPriority THEN MinCostOf(available, ps)
        ELSE IF task.priority >= MediumPriority THEN BalancedOf(available, ps)
        ELSE MaxAvailOf(available, ps)

MinCostSelect(task, ps) ==
    LET available == FreeAny(ps)
        region_pools == {i \in available : ps[i].region = task.region}
    IN  IF available = {} THEN NoPool
        ELSE IF region_pools # {} THEN MinCostOf(region_pools, ps)
        ELSE MinCostOf(available, ps)

\* SchedulerFactory.create(k).select_worker
select_worker(k, task, ps) ==
    CASE k = "fifo"     -> FIFOSelect(task, ps)
      [] k = "priority" -> PrioritySelect(task, ps)
      [] k = "min_cost" -> MinCostSelect(task, ps)

\* ------------------------------------------------------- core/queue.py
\* queue.Queue(maxsize): maxsize <= 0 is unbounded
QueueFull(q, bound) == bound > 0 /\ Len(q) >= bound

QueuePut_Front(q, id) == <<id>> \o q

QueuePut(q, id) == Append(q, id)

QueueGet_Last(q) == q[Len(q)]

QueueGet(q) == Head(q)

QueueRest(q) == Tail(q)

NoTask == 0            \* dequeue returning None

\* TaskQueue(maxsize)
NewTaskQueue(bound) ==
    [queue |-> <<>>, maxsize |-> bound,
     stats |-> [enqueued |-> 0, dequeued |-> 0, current_size |-> 0]]

\* TaskQueue.enqueue: put(block=False), then the statistics; False on Full.
\* The value is the queue after the call and the result of the call.
enqueue(tq, id) ==
    IF QueueFull(tq.queue, tq.maxsize)
    THEN [tq |-> tq, result |-> FALSE]
    ELSE [tq |-> [tq EXCEPT !.queue = QueuePut(tq.queue, id),
                            !.stats.enqueued = @ + 1,
                            !.stats.current_size = Len(QueuePut(tq.queue, id))],
          result |-> TRUE]

\* TaskQueue.dequeue(timeout): get(block=True, timeout), then the
\* statistics; None when the queue stayed empty for the timeout.
dequeue(tq) ==
    IF tq.queue = <<>>
    THEN [tq |-> tq, result |-> NoTask]
    ELSE [tq |-> [tq EXCEPT !.queue = QueueRest(tq.queue),
                            !.stats.dequeued = @ + 1,
                            !.stats.current_size = Len(QueueRest(tq.queue))],
          result |-> QueueGet(tq.queue)]

\* ---------------------------------------------------------------- Init
Null == "none"

NoJob == [pc |-> "none", pool |-> NoPool, rload |-> 0, success |-> FALSE]

InitPipeline ==
    /\ tasks = <<>>
    /\ logs = <<>>
    /\ running = FALSE
    /\ algorithm_type = "fifo"
    /\ scheduler = "fifo"
    /\ rstats = [tasks_processed |-> 0, tasks_failed |-> 0, tasks_scheduled |-> 0]
    /\ rpc = "stopped"
    /\ rtask = 0
    /\ rpool = NoPool
    /\ ralg = Null
    /\ exec = <<>>
    /\ apc = "idle"
    /\ atask = 0
    /\ aresp = 0
    /\ dispatchOrder = <<>>
    /\ noneReturned = FALSE
    /\ dequeuedUnder = Null
    /\ refused = 0

\* the threads that call the TaskQueue: the API's event loop (create_task)
\* and the dispatch thread (dequeue, and enqueue when it requeues)
QClients == {"api", "runner"}

InitCalls ==
    /\ accepted = <<>>
    /\ returned = <<>>
    /\ lastResult = "start"
    /\ callerId = 1
    /\ qpc = [c \in QClients |-> "idle"]

\* no policy is called on its own
InitPolicies ==
    /\ ptask = [region |-> "us-east", priority |-> 5]
    /\ snapshot = <<>>
    /\ pstrategy = "fifo"
    /\ results = <<>>

\* threads that call start() and stop() on the runner
Callers == {1, 2}

\* no batch route() has been called
NotRouted == [algorithm |-> "none", solver |-> "none", raised |-> FALSE,
              assignments |-> <<>>]

InitBatch ==
    /\ batch = <<>>
    /\ bpools = <<>>
    /\ routed = NotRouted

\* SchedulerRunner.__init__: _thread = None, nothing launched
InitLife ==
    /\ loops = <<>>
    /\ thread = 0
    /\ caller = [c \in Callers |-> "idle"]

\* the module-level task_queue = TaskQueue() is unbounded
Init ==
    /\ InitPipeline
    /\ InitCalls
    /\ InitPolicies
    /\ InitLife
    /\ InitBatch
    /\ pools \in SeedConfigs
    /\ task_queue = NewTaskQueue(0)

\* ------------------------------------------------------- api/main.py

NewTask(region, priority) ==
    [region |-> region, priority |-> priority, status |-> "queued",
     started_at |-> FALSE, completed_at |-> FALSE,
     worker_id |-> Null, algorithm_used |-> Null]

LogEntry(ev, details) == [event_type |-> ev, details |-> details]

\* create_task, first commit: the task row (status queued)
CreateTask(region, priority) ==
    /\ apc = "idle"
    /\ Len(tasks) < MaxTasks
    /\ tasks' = Append(tasks, NewTask(region, priority))
    /\ logs' = Append(logs, <<>>)
    /\ exec' = Append(exec, NoJob)
    /\ atask' = Len(tasks) + 1
    /\ apc' = "create_log"
    /\ UNCHANGED <<pools, task_queue, running, algorithm_type, scheduler,
                   rstats, rpc, rtask, rpool, ralg, dispatchOrder,
                   noneReturned, dequeuedUnder, aresp, benchvars>>

\* create_task, second commit: the created log
CreateLog ==
    /\ apc = "create_log"
    /\ logs' = [logs EXCEPT ![atask] = Append(@,
            LogEntry("created", [priority |-> tasks[atask].priority,
                                 region |-> tasks[atask].region]))]
    /\ apc' = "create_enqueue"
    /\ UNCHANGED <<tasks, pools, task_queue, running, algorithm_type,
                   scheduler, rstats, rpc, rtask, rpool, ralg, exec, atask,
                   dispatchOrder, noneReturned, dequeuedUnder, aresp,
                   benchvars>>

\* create_task: task_queue.enqueue(db_task.id); the result is not looked at
CreateEnqueue ==
    /\ apc = "create_enqueue"
    /\ task_queue' = enqueue(task_queue, atask).tq
    /\ apc' = "idle"
    /\ atask' = 0
    /\ aresp' = Created
    /\ UNCHANGED <<tasks, logs, pools, running, algorithm_type, scheduler,
                   rstats, rpc, rtask, rpool, ralg, exec, dispatchOrder,
                   noneReturned, dequeuedUnder, benchvars>>

\* cancel_task: the query and the two checks (404, 400)
CancelAllowed(task) == task.status = "queued"

CancelRead(t) ==
    /\ apc = "idle"
    /\ t \in TaskIds
    /\ CancelAllowed(tasks[t])
    /\ apc' = "cancel_commit"
    /\ atask' = t
    /\ UNCHANGED <<tasks, logs, pools, task_queue, running, algorithm_type,
                   scheduler, rstats, rpc, rtask, rpool, ralg, exec,
                   dispatchOrder, noneReturned, dequeuedUnder, aresp,
                   benchvars>>

\* the cancel rewrites the task's log instead of appending to it
CancelCommit_Rewrite ==
    /\ apc = "cancel_commit"
    /\ tasks' = [tasks EXCEPT ![atask].status = "cancelled"]
    /\ logs' = [logs EXCEPT ![atask] = <<LogEntry("cancelled", <<>>)>>]
    /\ apc' = "idle"
    /\ atask' = 0
    /\ UNCHANGED <<pools, task_queue, running, algorithm_type, scheduler,
                   rstats, rpc, rtask, rpool, ralg, exec, dispatchOrder,
                   noneReturned, dequeuedUnder, aresp, benchvars>>

\* cancel_task: status = CANCELLED and the cancelled log, one commit
CancelCommit ==
    /\ apc = "cancel_commit"
    /\ tasks' = [tasks EXCEPT ![atask].status = "cancelled"]
    /\ logs' = [logs EXCEPT ![atask] = Append(@, LogEntry("cancelled", <<>>))]
    /\ apc' = "idle"
    /\ atask' = 0
    /\ UNCHANGED <<pools, task_queue, running, algorithm_type, scheduler,
                   rstats, rpc, rtask, rpool, ralg, exec, dispatchOrder,
                   noneReturned, dequeuedUnder, aresp, benchvars>>

\* cancel_task: no row with this id, 404
CancelNotFound(t) ==
    /\ apc = "idle"
    /\ t \notin TaskIds
    /\ refused' = NotFound
    /\ UNCHANGED <<corevars, task_queue, callvars, polvars, lifevars,
                   batchvars>>

\* cancel_task: the row read is not queued, 400
CancelNotQueued(t) ==
    /\ apc = "idle"
    /\ t \in TaskIds
    /\ ~CancelAllowed(tasks[t])
    /\ refused' = BadRequest
    /\ UNCHANGED <<corevars, task_queue, callvars, polvars, lifevars,
                   batchvars>>

\* the methods class SchedulerRunner defines
RunnerMethods ==
    {"__init__", "start", "stop", "_run", "_process_task", "get_stats",
     "set_algorithm"}

\* health_check, scheduler part: scheduler_runner.is_running() inside a
\* try whose except reports "stopped"; a call of a method the class does
\* not define raises AttributeError
SchedulerStatus ==
    IF "is_running" \in RunnerMethods
    THEN IF running THEN "healthy" ELSE "stopped"
    ELSE "stopped"

\* health_check with the store and the queue answering
health_check ==
    [status |-> IF SchedulerStatus = "healthy" THEN "healthy" ELSE "degraded",
     database |-> "healthy",
     queue |-> "healthy",
     scheduler |-> SchedulerStatus]

\* switch_algorithm -> SchedulerRunner.set_algorithm(k): one assignment to
\* self.algorithm_type (a call with the current value changes nothing)
SetAlgorithm(k) ==
    /\ apc = "idle"
    /\ algorithm_type # k
    /\ algorithm_type' = k
    /\ UNCHANGED <<tasks, logs, pools, task_queue, running, scheduler,
                   rstats, rpc, rtask, rpool, ralg, exec, apc, atask,
                   dispatchOrder, noneReturned, dequeuedUnder, aresp,
                   benchvars>>

\* ------------------------------------------------------ core/runner.py
\* start(): _running = True, the thread is started and builds its scheduler
Start ==
    /\ ~running
    /\ rpc = "stopped"
    /\ running' = TRUE
    /\ scheduler' = algorithm_type
    /\ rpc' = "poll"
    /\ UNCHANGED <<tasks, logs, pools, task_queue, algorithm_type, rstats,
                   rtask, rpool, ralg, exec, apc, atask, dispatchOrder,
                   noneReturned, dequeuedUnder, aresp, benchvars>>

\* _run: task_id = task_queue.dequeue(timeout), an id came back
RunnerDequeue ==
    /\ rpc = "poll"
    /\ running
    /\ dequeue(task_queue).result # NoTask
    /\ rtask' = dequeue(task_queue).result
    /\ task_queue' = dequeue(task_queue).tq
    /\ rpc' = "process"
    /\ dequeuedUnder' = algorithm_type
    /\ UNCHANGED <<tasks, logs, pools, running, algorithm_type, scheduler,
                   rstats, rpool, ralg, exec, apc, atask, dispatchOrder,
                   noneReturned, aresp, benchvars>>

\* _process_task: the task is loaded only to see that it exists
TaskFound(t) == t \in TaskIds

\* the label is taken from the strategy the loop was started with
RunnerSelect_LabelAtStart ==
    /\ rpc = "process"
    /\ TaskFound(rtask)
    /\ select_worker(scheduler, tasks[rtask], pools) # NoPool
    /\ rpool' = select_worker(scheduler, tasks[rtask], pools)
    /\ ralg' = scheduler
    /\ rpc' = "commit"
    /\ UNCHANGED <<tasks, logs, pools, task_queue, running, algorithm_type,
                   scheduler, rstats, rtask, exec, apc, atask, dispatchOrder,
                   noneReturned, dequeuedUnder, aresp, benchvars>>

\* _process_task: a pool was selected; task.algorithm_used is assigned
RunnerSelect ==
    /\ rpc = "process"
    /\ TaskFound(rtask)
    /\ select_worker(scheduler, tasks[rtask], pools) # NoPool
    /\ rpool' = select_worker(scheduler, tasks[rtask], pools)
    /\ ralg' = algorithm_type
    /\ rpc' = "commit"
    /\ UNCHANGED <<tasks, logs, pools, task_queue, running, algorithm_type,
                   scheduler, rstats, rtask, exec, apc, atask, dispatchOrder,
                   noneReturned, dequeuedUnder, aresp, benchvars>>

\* the dispatch leaving the id of the task on the queue
RunnerCommit_KeepsId ==
    /\ rpc = "commit"
    /\ task_queue.stats.enqueued < MaxEnqueued
    /\ task_queue' = enqueue(task_queue, rtask).tq
    /\ tasks' = [tasks EXCEPT ![rtask].algorithm_used = ralg]
    /\ logs' = [logs EXCEPT ![rtask] = Append(@,
            LogEntry("scheduled",
                     [worker_pool |-> pools[rpool].name,
                      algorithm |-> algorithm_type,
                      region |-> pools[rpool].region,
                      cost_per_unit |-> pools[rpool].cost_per_unit]))]
    /\ rstats' = [rstats EXCEPT !.tasks_scheduled = @ + 1,
                                !.tasks_processed = @ + 1]
    /\ exec' = [exec EXCEPT ![rtask] =
                   [pc |-> "claim", pool |-> rpool, rload |-> 0, success |-> FALSE]]
    /\ dispatchOrder' = Append(dispatchOrder, rtask)
    /\ rpc' = "poll"
    /\ rtask' = 0
    /\ rpool' = NoPool
    /\ ralg' = Null
    /\ dequeuedUnder' = Null
    /\ UNCHANGED <<pools, running, algorithm_type, scheduler,
                   apc, atask, noneReturned, aresp, benchvars>>

\* _process_task: the scheduled log and algorithm_used are committed, the
\* counters are bumped and the executor thread is started
RunnerCommit ==
    /\ rpc = "commit"
    /\ tasks' = [tasks EXCEPT ![rtask].algorithm_used = ralg]
    /\ logs' = [logs EXCEPT ![rtask] = Append(@,
            LogEntry("scheduled",
                     [worker_pool |-> pools[rpool].name,
                      algorithm |-> algorithm_type,
                      region |-> pools[rpool].region,
                      cost_per_unit |-> pools[rpool].cost_per_unit]))]
    /\ rstats' = [rstats EXCEPT !.tasks_scheduled = @ + 1,
                                !.tasks_processed = @ + 1]
    /\ exec' = [exec EXCEPT ![rtask] =
                   [pc |-> "claim", pool |-> rpool, rload |-> 0, success |-> FALSE]]
    /\ dispatchOrder' = Append(dispatchOrder, rtask)
    /\ rpc' = "poll"
    /\ rtask' = 0
    /\ rpool' = NoPool
    /\ ralg' = Null
    /\ dequeuedUnder' = Null
    /\ UNCHANGED <<pools, task_queue, running, algorithm_type, scheduler,
                   apc, atask, noneReturned, aresp, benchvars>>

\* _process_task: select_worker returned None
RunnerNoWorker ==
    /\ rpc = "process"
    /\ TaskFound(rtask)
    /\ select_worker(scheduler, tasks[rtask], pools) = NoPool
    /\ rpc' = "requeue"
    /\ noneReturned' = TRUE
    /\ UNCHANGED <<tasks, logs, pools, task_queue, running, algorithm_type,
                   scheduler, rstats, rtask, rpool, ralg, exec, apc, atask,
                   dispatchOrder, dequeuedUnder, aresp, benchvars>>

\* the requeue counted as a processed task
RunnerRequeue_Counted ==
    /\ rpc = "requeue"
    /\ task_queue.stats.enqueued < MaxEnqueued
    /\ task_queue' = enqueue(task_queue, rtask).tq
    /\ rstats' = [rstats EXCEPT !.tasks_processed = @ + 1]
    /\ rpc' = "poll"
    /\ rtask' = 0
    /\ dequeuedUnder' = Null
    /\ UNCHANGED <<tasks, logs, pools, running, algorithm_type, scheduler,
                   rpool, ralg, exec, apc, atask, dispatchOrder,
                   noneReturned, aresp, benchvars>>

\* _process_task: task_queue.enqueue(task_id); sleep(1); back to the poll
RunnerRequeue ==
    /\ rpc = "requeue"
    /\ task_queue.stats.enqueued < MaxEnqueued
    /\ task_queue' = enqueue(task_queue, rtask).tq
    /\ rpc' = "poll"
    /\ rtask' = 0
    /\ dequeuedUnder' = Null
    /\ UNCHANGED <<tasks, logs, pools, running, algorithm_type, scheduler,
                   rstats, rpool, ralg, exec, apc, atask, dispatchOrder,
                   noneReturned, aresp, benchvars>>

\* ------------------------------------------------------ core/worker.py
\* execute_task, Claim: "if not task or not pool" and the capacity gate
ClaimRefused_NoGate(t, p) ==
    \/ t \notin TaskIds
    \/ p \notin PoolIds

ClaimRefused(t, p) ==
    \/ t \notin TaskIds
    \/ p \notin PoolIds
    \/ pools[p].current_load >= pools[p].capacity

ClaimLoad(read) == read + 1

ReleaseLoad(read) == Max(0, read - 1)

\* Claim refused: return False, nothing is written
ExecClaimAbort(t) ==
    /\ t \in TaskIds
    /\ exec[t].pc = "claim"
    /\ ClaimRefused(t, exec[t].pool)
    /\ exec' = [exec EXCEPT ![t].pc = "aborted"]
    /\ UNCHANGED <<tasks, logs, pools, task_queue, running, algorithm_type,
                   scheduler, rstats, rpc, rtask, rpool, ralg, apc, atask,
                   dispatchOrder, noneReturned, dequeuedUnder, aresp,
                   benchvars>>

\* Claim: the two queries passed the gate; the session holds what it read
ExecClaimRead(t) ==
    /\ t \in TaskIds
    /\ exec[t].pc = "claim"
    /\ ~ClaimRefused(t, exec[t].pool)
    /\ exec' = [exec EXCEPT ![t].pc = "claim_commit",
                            ![t].rload = pools[exec[t].pool].current_load]
    /\ UNCHANGED <<tasks, logs, pools, task_queue, running, algorithm_type,
                   scheduler, rstats, rpc, rtask, rpool, ralg, apc, atask,
                   dispatchOrder, noneReturned, dequeuedUnder, aresp,
                   benchvars>>

\* Claim: current_load += 1, status = PROCESSING, started_at, worker_id; commit
ExecClaimCommit(t) ==
    /\ t \in TaskIds
    /\ exec[t].pc = "claim_commit"
    /\ pools' = [pools EXCEPT ![exec[t].pool].current_load = ClaimLoad(exec[t].rload)]
    /\ tasks' = [tasks EXCEPT ![t].status = "processing",
                              ![t].started_at = TRUE,
                              ![t].worker_id = pools[exec[t].pool].name]
    /\ exec' = [exec EXCEPT ![t].pc = "work", ![t].rload = 0]
    /\ UNCHANGED <<logs, task_queue, running, algorithm_type, scheduler,
                   rstats, rpc, rtask, rpool, ralg, apc, atask,
                   dispatchOrder, noneReturned, dequeuedUnder, aresp,
                   benchvars>>

\* Work is over (sleep, success drawn); Release queries task and pool
ExecReleaseRead(t, success) ==
    /\ t \in TaskIds
    /\ exec[t].pc = "work"
    /\ exec' = [exec EXCEPT ![t].pc = "release_commit",
                            ![t].rload = pools[exec[t].pool].current_load,
                            ![t].success = success]
    /\ UNCHANGED <<tasks, logs, pools, task_queue, running, algorithm_type,
                   scheduler, rstats, rpc, rtask, rpool, ralg, apc, atask,
                   dispatchOrder, noneReturned, dequeuedUnder, aresp,
                   benchvars>>

\* Release: current_load = max(0, current_load - 1), completed_at, status; commit
ExecReleaseCommit(t) ==
    /\ t \in TaskIds
    /\ exec[t].pc = "release_commit"
    /\ pools' = [pools EXCEPT ![exec[t].pool].current_load = ReleaseLoad(exec[t].rload)]
    /\ tasks' = [tasks EXCEPT ![t].status = IF exec[t].success THEN "completed"
                                            ELSE "failed",
                              ![t].completed_at = TRUE]
    /\ exec' = [exec EXCEPT ![t].pc = "done", ![t].rload = 0,
                            ![t].success = FALSE]
    /\ UNCHANGED <<logs, task_queue, running, algorithm_type, scheduler,
                   rstats, rpc, rtask, rpool, ralg, apc, atask,
                   dispatchOrder, noneReturned, dequeuedUnder, aresp,
                   benchvars>>

\* ---------------------------------------------------------------- Next
Next ==
    \/ \E r \in TaskRegions, p \in TaskPriorities : CreateTask(r, p)
    \/ CreateLog
    \/ CreateEnqueue
    \/ \E t \in 1..MaxTasks : CancelRead(t)
    \/ CancelCommit
    \/ Start
    \/ RunnerDequeue
    \/ RunnerSelect
    \/ RunnerCommit
    \/ RunnerNoWorker
    \/ RunnerRequeue
    \/ \E t \in 1..MaxTasks : ExecClaimAbort(t)
    \/ \E t \in 1..MaxTasks : ExecClaimRead(t)
    \/ \E t \in 1..MaxTasks : ExecClaimCommit(t)
    \/ \E t \in 1..MaxTasks, s \in BOOLEAN : ExecReleaseRead(t, s)
    \/ \E t \in 1..MaxTasks : ExecReleaseCommit(t)

Spec == Init /\ [][Next]_vars

TypeOK ==
    /\ Len(tasks) <= MaxTasks
    /\ Len(logs) = Len(tasks)
    /\ Len(exec) = Len(tasks)
    /\ rpc \in {"stopped", "poll", "process", "commit", "requeue"}
    /\ apc \in {"idle", "create_log", "create_enqueue", "cancel_commit"}
    /\ \A t \in TaskIds : exec[t].pc \in
          {"none", "claim", "claim_commit", "work", "release_commit",
           "done", "aborted"}

\* ------------------------------------- the pipeline under a switch
\* Tasks are submitted and the algorithm is switched while the pipeline
\* runs; no cancel request is made.
SInit ==
    /\ InitPipeline
    /\ InitCalls
    /\ InitPolicies
    /\ InitLife
    /\ InitBatch
    /\ pools \in SwitchConfigs
    /\ task_queue = NewTaskQueue(0)

SNext ==
    \/ \E r \in TaskRegions, p \in TaskPriorities : CreateTask(r, p)
    \/ CreateLog
    \/ CreateEnqueue
    \/ \E k \in SwitchTargets : SetAlgorithm(k)
    \/ Start
    \/ RunnerDequeue
    \/ RunnerSelect
    \/ RunnerCommit
    \/ RunnerNoWorker
    \/ RunnerRequeue
    \/ \E t \in 1..MaxTasks : ExecClaimAbort(t)
    \/ \E t \in 1..MaxTasks : ExecClaimRead(t)
    \/ \E t \in 1..MaxTasks : ExecClaimCommit(t)
    \/ \E t \in 1..MaxTasks, s \in BOOLEAN : ExecReleaseRead(t, s)
    \/ \E t \in 1..MaxTasks : ExecReleaseCommit(t)

SwitchSpec == SInit /\ [][SNext]_vars

\* ------------------------------------ the pipeline on a bounded queue
\* TaskQueue(maxsize) with a maxsize that one waiting id fills
SmallQueue == 1

AInit ==
    /\ InitPipeline
    /\ InitCalls
    /\ InitPolicies
    /\ InitLife
    /\ InitBatch
    /\ pools \in SeedConfigs
    /\ task_queue = NewTaskQueue(SmallQueue)

AdmitSpec == AInit /\ [][Next]_vars

\* ------------------------------- the pipeline with refused cancels
CNext ==
    \/ Next
    \/ \E t \in 1..MaxTasks : CancelNotFound(t)
    \/ \E t \in 1..MaxTasks : CancelNotQueued(t)

CancelSpec == Init /\ [][CNext]_vars

\* ------------------------------------------- a TaskQueue and its callers
\* Producers call enqueue with fresh ids, one consumer calls dequeue; the
\* calls are atomic under the queue's mutex and interleave freely.
QInit ==
    /\ InitPipeline
    /\ InitCalls
    /\ InitPolicies
    /\ InitLife
    /\ InitBatch
    /\ pools = <<SeedEast>>
    /\ pools \in SeedConfigs
    /\ task_queue \in {NewTaskQueue(0), NewTaskQueue(MaxQueue)}

\* a producer's enqueue(id) returns True
QEnqueue ==
    /\ callerId <= MaxCalls
    /\ enqueue(task_queue, callerId).result
    /\ task_queue' = enqueue(task_queue, callerId).tq
    /\ accepted' = Append(accepted, callerId)
    /\ lastResult' = "true"
    /\ callerId' = callerId + 1
    /\ UNCHANGED <<returned, qpc, pipevars>>

\* a producer's enqueue(id) returns False (queue.Full)
QEnqueueFull ==
    /\ callerId <= MaxCalls
    /\ ~enqueue(task_queue, callerId).result
    /\ task_queue' = enqueue(task_queue, callerId).tq
    /\ lastResult' = "false"
    /\ callerId' = callerId + 1
    /\ UNCHANGED <<accepted, returned, qpc, pipevars>>

\* the consumer's dequeue(timeout) returns an id
QDequeue ==
    /\ dequeue(task_queue).result # NoTask
    /\ task_queue' = dequeue(task_queue).tq
    /\ returned' = Append(returned, dequeue(task_queue).result)
    /\ lastResult' = "id"
    /\ UNCHANGED <<accepted, callerId, qpc, pipevars>>

\* the consumer's dequeue(timeout) returns None (queue.Empty)
QDequeueTimeout ==
    /\ dequeue(task_queue).result = NoTask
    /\ task_queue' = dequeue(task_queue).tq
    /\ lastResult' = "none"
    /\ UNCHANGED <<accepted, returned, callerId, qpc, pipevars>>

QNext == QEnqueue \/ QEnqueueFull \/ QDequeue \/ QDequeueTimeout

QSpec == QInit /\ [][QNext]_vars

\* ------------------------------------------- a policy and its callers
\* select_worker is handed a task and a pool list as the dispatch loop
\* hands them over: the task's region and priority, and pools whose load
\* is within their capacity.  The pools' names are only written to the
\* application log and are left out.
PolicyRegions == {"us-east", "us-west"}
PolicyPriorities == {3, 4, 6, 7}
PolicyCosts == {50, 60}
PolicyCapacities == {1, 2}

PolicyTasks == [region : PolicyRegions, priority : PolicyPriorities]

PolicyPools ==
    {p \in [region : PolicyRegions, cost_per_unit : PolicyCosts,
            capacity : PolicyCapacities, current_load : 0..2] :
        p.current_load <= p.capacity}

Snapshots == UNION {[1..n -> PolicyPools] : n \in 0..MaxPools}

PInit ==
    /\ InitPipeline
    /\ InitCalls
    /\ InitLife
    /\ InitBatch
    /\ pools = <<SeedEast>>
    /\ task_queue = NewTaskQueue(0)
    /\ ptask \in PolicyTasks
    /\ snapshot \in Snapshots
    /\ pstrategy \in Algorithms
    /\ results = <<>>

\* a mutating policy: the selected pool's load is taken at once
SelectCall_Mutating ==
    /\ Len(results) < MaxSelects
    /\ results' = Append(results, select_worker(pstrategy, ptask, snapshot))
    /\ snapshot' = [i \in 1..Len(snapshot) |->
            IF i = select_worker(pstrategy, ptask, snapshot)
            THEN [snapshot[i] EXCEPT !.current_load = @ + 1]
            ELSE snapshot[i]]
    /\ UNCHANGED <<ptask, pstrategy, corevars, task_queue, callvars, lifevars,
                   batchvars, refused>>

\* SchedulerFactory.create(pstrategy).select_worker(ptask, snapshot): the
\* three strategies assign nothing, to their arguments or elsewhere
SelectCall ==
    /\ Len(results) < MaxSelects
    /\ results' = Append(results, select_worker(pstrategy, ptask, snapshot))
    /\ UNCHANGED <<ptask, snapshot, pstrategy, corevars, task_queue, callvars,
                   lifevars, batchvars, refused>>

PNext == SelectCall

PSpec == PInit /\ [][PNext]_vars

\* ------------------------------------- the runner's start() and stop()
\* start() and stop() take no lock: a call is a read of _running, then the
\* assignments, and calls from different threads interleave between the
\* two.  A _run thread tests _running at the head of each iteration; what
\* an iteration does with the queue is left out here.
lifeframe == <<tasks, logs, pools, task_queue, algorithm_type, scheduler,
               rstats, rpc, rtask, rpool, ralg, exec, apc, atask, aresp,
               dispatchOrder, noneReturned, dequeuedUnder, callvars, polvars,
               batchvars, refused>>

LoopIds == 1..Len(loops)

Alive(i) == loops[i] # "exited"

LInit == Init /\ pools = <<SeedEast>>

\* start(): if self._running: return
StartCheck(c) ==
    /\ caller[c] = "idle"
    /\ Len(loops) + Cardinality({d \in Callers : caller[d] = "start_launch"})
           < MaxLoops
    /\ caller' = [caller EXCEPT ![c] = IF running THEN "idle" ELSE "start_launch"]
    /\ UNCHANGED <<running, loops, thread, lifeframe>>

\* start(): _running = True; _thread = Thread(target=_run); _thread.start()
StartLaunch(c) ==
    /\ caller[c] = "start_launch"
    /\ running' = TRUE
    /\ loops' = Append(loops, "test")
    /\ thread' = Len(loops) + 1
    /\ caller' = [caller EXCEPT ![c] = "idle"]
    /\ UNCHANGED lifeframe

\* stop(): if not self._running: return
StopCheck(c) ==
    /\ caller[c] = "idle"
    /\ caller' = [caller EXCEPT ![c] = IF running THEN "stop_clear" ELSE "idle"]
    /\ UNCHANGED <<running, loops, thread, lifeframe>>

\* stop(): _running = False
StopClear(c) ==
    /\ caller[c] = "stop_clear"
    /\ running' = FALSE
    /\ caller' = [caller EXCEPT ![c] = "stop_join"]
    /\ UNCHANGED <<loops, thread, lifeframe>>

\* stop(): _thread.join(timeout=5) returns because the thread has ended
StopJoined(c) ==
    /\ caller[c] = "stop_join"
    /\ thread # 0 => ~Alive(thread)
    /\ caller' = [caller EXCEPT ![c] = "idle"]
    /\ UNCHANGED <<running, loops, thread, lifeframe>>

\* stop(): _thread.join(timeout=5) returns because the five seconds are
\* over; the thread is still in an iteration
StopJoinTimeout(c) ==
    /\ caller[c] = "stop_join"
    /\ thread # 0
    /\ loops[thread] = "body"
    /\ caller' = [caller EXCEPT ![c] = "idle"]
    /\ UNCHANGED <<running, loops, thread, lifeframe>>

\* a loop that never reads the flag
LoopTest_IgnoresFlag(i) ==
    /\ i \in LoopIds
    /\ loops[i] = "test"
    /\ loops' = [loops EXCEPT ![i] = "body"]
    /\ UNCHANGED <<running, thread, caller, lifeframe>>

\* _run: while self._running
LoopTest(i) ==
    /\ i \in LoopIds
    /\ loops[i] = "test"
    /\ loops' = [loops EXCEPT ![i] = IF running THEN "body" ELSE "exited"]
    /\ UNCHANGED <<running, thread, caller, lifeframe>>

\* _run: one iteration (dequeue with its timeout, _process_task)
LoopBody(i) ==
    /\ i \in LoopIds
    /\ loops[i] = "body"
    /\ loops' = [loops EXCEPT ![i] = "test"]
    /\ UNCHANGED <<running, thread, caller, lifeframe>>

LNext ==
    \/ \E c \in Callers : StartCheck(c)
    \/ \E c \in Callers : StartLaunch(c)
    \/ \E c \in Callers : StopCheck(c)
    \/ \E c \in Callers : StopClear(c)
    \/ \E c \in Callers : StopJoined(c)
    \/ \E c \in Callers : StopJoinTimeout(c)
    \/ \E i \in 1..MaxLoops : LoopTest(i)
    \/ \E i \in 1..MaxLoops : LoopBody(i)

LifeSpec == LInit /\ [][LNext]_vars

\* ================================================================ claims
Terminal == {"completed", "failed", "cancelled"}

\* No thread has work in hand: the loop polls an empty queue, the API is
\* idle and every executor job has returned.
Quiescent ==
    /\ running
    /\ rpc = "poll"
    /\ task_queue.queue = <<>>
    /\ apc = "idle"
    /\ \A t \in TaskIds : exec[t].pc \in {"none", "done", "aborted"}

RECURSIVE SumLoad(_)
SumLoad(ps) == IF ps = <<>> THEN 0 ELSE Head(ps).current_load + SumLoad(Tail(ps))

Processing == {t \in TaskIds : tasks[t].status = "processing"}

\* executor jobs between a committed Claim and their Release commit
Claimed(p) == {t \in TaskIds : exec[t].pool = p /\ exec[t].pc \in {"work", "release_commit"}}

LegalTransitions ==
    { <<"queued", "processing">>, <<"queued", "cancelled">>,
      <<"processing", "completed">>, <<"processing", "failed">> }

\* C1: a task's status changes only along queued->processing,
\* queued->cancelled, processing->completed, processing->failed; a terminal
\* status (completed, failed, cancelled) therefore never changes again.
C1_StatusLegal ==
    [][\A t \in TaskIds :
          tasks'[t].status # tasks[t].status
              => <<tasks[t].status, tasks'[t].status>> \in LegalTransitions]_vars

\* C2: for every pool, in every reachable state, 0 <= current_load <= capacity.
C2_LoadWithinCapacity ==
    \A p \in PoolIds :
        0 <= pools[p].current_load /\ pools[p].current_load <= pools[p].capacity

\* C2 witness: a pool is full while another job, having passed the gate on
\* an older read, is about to commit its Claim on the same pool.
C2_Witness ==
    \E p \in PoolIds, t \in TaskIds :
        /\ pools[p].current_load = pools[p].capacity
        /\ exec[t].pool = p
        /\ exec[t].pc = "claim_commit"

\* C3: at every commit boundary the sum over all pools of current_load
\* equals the number of tasks whose status is processing.
C3_LoadConservation == SumLoad(pools) = Cardinality(Processing)

\* C4: executor jobs racing in Claim for the last slot of a pool do not
\* both succeed: a pool never carries more committed claims than capacity.
C4_OneClaimPerSlot ==
    \A p \in PoolIds : Cardinality(Claimed(p)) <= pools[p].capacity

\* C5: a task that has been cancelled (its cancelled log is committed) is
\* never observed in processing or completed.
C5_CancelExclusive ==
    \A t \in TaskIds :
        HasLog(t, "cancelled") => tasks[t].status \notin {"processing", "completed"}

\* C6: when the dispatch loop loads a dequeued task that is not queued, it
\* drops the id: it goes back to the poll and changes no task, log, pool,
\* executor job, counter or queue.
C6_DropNonQueued ==
    [][(rpc = "process" /\ tasks[rtask].status # "queued" /\ rpc' # "process")
          => /\ rpc' = "poll"
             /\ UNCHANGED <<tasks, logs, pools, exec, task_queue, rstats>>]_vars

\* C7: every admitted task that is not cancelled reaches completed or
\* failed; stated on the final result: once the running system has no work
\* in hand, no task is left short of a terminal status.
C7_AllReachTerminal ==
    Quiescent => \A t \in TaskIds : tasks[t].status \in Terminal

\* C8: a Claim that aborts because the pool is full gets its task id put
\* back on the queue, so the task does not stay queued with its id held by
\* nobody: once the running system has no work in hand, no task whose Claim
\* aborted is still queued.
C8_AbortRequeues ==
    Quiescent =>
        \A t \in TaskIds :
            exec[t].pc = "aborted" => tasks[t].status # "queued"

\* C9: as long as no selection has returned None, tasks are dispatched in
\* the order they were admitted (task ids are handed out in admission
\* order, so the k-th dispatch is of task k).
C9_FIFODispatch ==
    ~noneReturned =>
        \A i \in 1..Len(dispatchOrder) : dispatchOrder[i] = i

\* C9 witness: two tasks dispatched, no selection returned None.
C9_Witness == ~noneReturned /\ Len(dispatchOrder) >= 2

IsPrefix(s, t) == Len(s) <= Len(t) /\ \A i \in 1..Len(s) : s[i] = t[i]

\* C10: dequeue returns ids in exactly the order enqueue accepted them;
\* every accepted id is either still queued once or was returned by exactly
\* one dequeue; dequeue on an empty queue returns none and leaves the
\* queue as it was.
C10_QueueFIFO ==
    /\ [](/\ IsPrefix(returned, accepted)
          /\ task_queue.queue = SubSeq(accepted, Len(returned) + 1, Len(accepted)))
    /\ [][(callerId' = callerId /\ task_queue.queue = <<>>)
             => /\ lastResult' = "none"
                /\ returned' = returned
                /\ task_queue' = task_queue]_vars

\* C10 witness: two ids were returned in order, and a later dequeue on the
\* emptied queue returned none.
C10_Witness ==
    /\ Len(returned) >= 2
    /\ task_queue.queue = <<>>
    /\ lastResult = "none"

\* ---------------------------------------------------- policy claims
HasFree(i) == snapshot[i].current_load < snapshot[i].capacity

SameRegion(i) == snapshot[i].region = ptask.region

SnapshotIds == 1..Len(snapshot)

\* the pools a strategy that prefers the task's region chooses from
Candidates ==
    IF \E i \in SnapshotIds : SameRegion(i) /\ HasFree(i)
    THEN {i \in SnapshotIds : SameRegion(i) /\ HasFree(i)}
    ELSE {i \in SnapshotIds : HasFree(i)}

\* C11: whatever the strategy, the task and the pool snapshot, select
\* returns none exactly when no pool of the snapshot has current_load <
\* capacity, and a pool it returns is a member of the snapshot with
\* current_load < capacity.
C11_NoneIffNoFree ==
    \A n \in 1..Len(results) :
        /\ results[n] = NoPool <=> ~ \E i \in SnapshotIds : HasFree(i)
        /\ results[n] # NoPool => results[n] \in SnapshotIds /\ HasFree(results[n])

\* a full pool stands before the free pool that is returned
C11_Witness ==
    /\ Len(results) >= 1
    /\ Len(snapshot) = 2
    /\ ~HasFree(1)
    /\ results[1] = 2

\* C12: FIFO returns the first pool in iteration order that is in the
\* task's region and free; without one, the first free pool of any region;
\* without one, none.
C12_FIFOFirstFit ==
    pstrategy = "fifo" =>
        \A n \in 1..Len(results) :
            IF Candidates = {} THEN results[n] = NoPool
            ELSE /\ results[n] \in Candidates
                 /\ \A j \in Candidates : results[n] <= j

\* S3: a us-east task, no us-east pool, a free us-west pool is assigned
C12_Witness ==
    /\ pstrategy = "fifo"
    /\ ptask.region = "us-east"
    /\ Len(snapshot) = 2
    /\ \A i \in SnapshotIds : snapshot[i].region = "us-west"
    /\ ~HasFree(1)
    /\ Len(results) >= 1
    /\ results[1] = 2

\* C13: Priority chooses among the free pools of the task's region, or
\* among all free pools when there is none: a pool of minimal cost_per_unit
\* for priority >= 7, a pool minimal under (cost_per_unit, -capacity) for
\* priority 4..6, a pool of maximal capacity - current_load for priority < 4.
C13_PriorityBands ==
    pstrategy = "priority" =>
        \A n \in 1..Len(results) :
            IF Candidates = {} THEN results[n] = NoPool
            ELSE /\ results[n] \in Candidates
                 /\ \A j \in Candidates :
                      LET r == snapshot[results[n]]
                          o == snapshot[j]
                      IN  IF ptask.priority >= 7
                          THEN r.cost_per_unit <= o.cost_per_unit
                          ELSE IF ptask.priority >= 4
                          THEN \/ r.cost_per_unit < o.cost_per_unit
                               \/ /\ r.cost_per_unit = o.cost_per_unit
                                  /\ r.capacity >= o.capacity
                          ELSE r.capacity - r.current_load
                                   >= o.capacity - o.current_load

\* a medium-priority task and two free pools of equal cost in its region:
\* the larger one, second in the list, is returned
C13_Witness ==
    /\ pstrategy = "priority"
    /\ ptask.priority = 6
    /\ Len(snapshot) = 2
    /\ \A i \in SnapshotIds : SameRegion(i) /\ HasFree(i)
    /\ snapshot[1].cost_per_unit = snapshot[2].cost_per_unit
    /\ snapshot[1].capacity < snapshot[2].capacity
    /\ Len(results) >= 1
    /\ results[1] = 2

C16_SwitchTakesEffect ==
    [][RunnerSelect /\ dequeuedUnder = algorithm_type
        => rpool' = select_worker(algorithm_type, tasks[rtask], pools)]_vars

C18_SingleLoop ==
    /\ [](Cardinality({i \in LoopIds : Alive(i)}) <= 1)
    /\ [][\A c \in Callers :
            StartCheck(c) /\ running => loops' = loops /\ caller'[c] = "idle"]_vars

\* ---------------------------------------------------- cancel claims
\* C19: a cancel goes through only on a task whose status is queued, and
\* then sets the status to cancelled and appends exactly one cancelled log in
\* that commit; a cancel of a task in another status (400) or of an unknown
\* id (404) changes no task, log, pool or queue.
C19_CancelContract ==
    /\ [][CancelCommit =>
            /\ tasks[atask].status = "queued"
            /\ tasks'[atask].status = "cancelled"
            /\ logs'[atask] = Append(logs[atask], LogEntry("cancelled", <<>>))]_vars
    /\ [][(\E t \in 1..MaxTasks : CancelNotFound(t) \/ CancelNotQueued(t))
            => UNCHANGED <<tasks, logs, pools, task_queue>>]_vars

\* ------------------------------------------------------- log claims
\* C20: a lifecycle transition of a task appends exactly one log entry for
\* that task in its commit: the dispatch appends the scheduled log, and a
\* step that sets the status to completed, failed or cancelled (Release,
\* cancel) appends one log whose event_type is that status.
C20_LogPerTransition ==
    /\ [][RunnerCommit =>
            logs'[rtask] = Append(logs[rtask], logs'[rtask][Len(logs'[rtask])])
            /\ logs'[rtask][Len(logs'[rtask])].event_type = "scheduled"]_vars
    /\ [][\A t \in TaskIds :
            tasks'[t].status # tasks[t].status /\ tasks'[t].status \in Terminal
                => /\ Len(logs'[t]) = Len(logs[t]) + 1
                   /\ logs'[t][Len(logs'[t])].event_type = tasks'[t].status]_vars

\* the event types of a task's log entries, in the order of their commits
EventTypes(t) == [i \in 1..Len(logs[t]) |-> logs[t][i].event_type]

EventRank(ev) ==
    CASE ev = "created" -> 1
      [] ev = "scheduled" -> 2
      [] ev \in {"completed", "failed"} -> 3
      [] OTHER -> 0

\* C21: the log entries of a task come in the order of its transitions,
\* created, then scheduled, then completed or failed; a task that ran to
\* completion has exactly the entries created, scheduled, completed, and
\* when it was the only task its pool's load is back at 0.
C21_LogOrder ==
    /\ \A t \in TaskIds : \A i, j \in 1..Len(logs[t]) :
          i < j /\ EventRank(logs[t][i].event_type) > 0
                /\ EventRank(logs[t][j].event_type) > 0
            => EventRank(logs[t][i].event_type) < EventRank(logs[t][j].event_type)
    /\ \A t \in TaskIds :
          tasks[t].status = "completed" /\ ~HasLog(t, "cancelled")
            => EventTypes(t) = <<"created", "scheduled", "completed">>
    /\ Len(tasks) = 1 /\ tasks[1].status = "completed"
            => \A p \in PoolIds : pools[p].current_load = 0

\* C22: at every commit boundary every task in the store has a created log.
C22_CreatedLog == \A t \in TaskIds : HasLog(t, "created")

\* C23: no step deletes or changes a log entry: after every step each
\* task's log begins with the log it had before the step.
C23_LogsAppendOnly ==
    [][\A t \in TaskIds : IsPrefix(logs[t], logs'[t])]_vars

\* a task has been created, dispatched and cancelled: three entries
C23_Witness ==
    \E t \in TaskIds :
        /\ Len(logs[t]) = 3
        /\ HasLog(t, "scheduled")
        /\ logs[t][3].event_type = "cancelled"

C25_HealthReport ==
    /\ running /\ rpc # "stopped"
        => health_check.scheduler = "healthy" /\ health_check.status = "healthy"
    /\ health_check.scheduler = "stopped" => ~running

\* ------------------------------------------------ batch route() variants
\* scheduler/algorithms: route(tasks, worker_pools) maps the id of each task
\* it could place to the id of a pool. An id is the position in its list; an
\* assignment is a function from the placed task ids to pool ids, {} being
\* the function of empty domain.
BatchRegions == {"us-east", "us-west"}
BatchPriorities == {3, 7}
BatchCosts == {50, 60}       \* cost_per_unit, in cents
BatchLoads == {<<1, 0>>, <<1, 1>>, <<2, 0>>}     \* <<capacity, current_load>>

BatchTasks == [region : BatchRegions, priority : BatchPriorities]

BatchPools ==
    { [region |-> r, cost_per_unit |-> c, capacity |-> cl[1],
       current_load |-> cl[2]] :
        r \in BatchRegions, c \in BatchCosts, cl \in BatchLoads }

Batches == UNION { [1..n -> BatchTasks] : n \in 0..MaxBatch }

BatchPoolLists == UNION { [1..n -> BatchPools] : n \in 0..MaxPools }

EmptyAssignment == <<>>

\* pool["current_load"] < pool["capacity"]
PoolFree(p) == p.current_load < p.capacity

FreePools(worker_pools) ==
    {i \in 1..Len(worker_pools) : PoolFree(worker_pools[i])}

\* position of a region among the keys of pools_by_region: a dict keeps its
\* keys in the order of their first insertion
RegionRank(worker_pools, r) ==
    CHOOSE i \in 1..Len(worker_pools) :
        /\ worker_pools[i].region = r
        /\ \A j \in 1..(i - 1) : worker_pools[j].region # r

\* pool i is met before pool j when the groups of pools_by_region are walked
GroupedBefore(worker_pools, i, j) ==
    LET ri == RegionRank(worker_pools, worker_pools[i].region)
        rj == RegionRank(worker_pools, worker_pools[j].region)
    IN  ri < rj \/ (ri = rj /\ i <= j)

\* the first free pool in list order, of any region
FIFOPick_AnyRegion(task, worker_pools) ==
    LET free == FreePools(worker_pools)
    IN  IF free = {} THEN NoPool
        ELSE CHOOSE i \in free : \A j \in free : i <= j

\* the pool FIFOAlgorithm.route gives one task: the first free pool of the
\* preferred region, else the first free pool met walking the region groups
FIFOPick(task, worker_pools) ==
    LET free == FreePools(worker_pools)
        preferred == {i \in free : worker_pools[i].region = task.region}
    IN  IF preferred # {}
        THEN CHOOSE i \in preferred : \A j \in preferred : i <= j
        ELSE IF free # {}
        THEN CHOOSE i \in free :
                \A j \in free : GroupedBefore(worker_pools, i, j)
        ELSE NoPool

FIFORoute_AnyRegion(task_list, worker_pools) ==
    LET placed == {t \in 1..Len(task_list) :
                       FIFOPick_AnyRegion(task_list[t], worker_pools) # NoPool}
    IN  [t \in placed |-> FIFOPick_AnyRegion(task_list[t], worker_pools)]

\* FIFOAlgorithm.route: the loads are not touched between two task_list
FIFORoute(task_list, worker_pools) ==
    LET placed == {t \in 1..Len(task_list) :
                       FIFOPick(task_list[t], worker_pools) # NoPool}
    IN  [t \in placed |-> FIFOPick(task_list[t], worker_pools)]

\* sorted(tasks, key=priority, reverse=True): a stable sort, so task_list of one
\* priority keep their order
RECURSIVE SortedTasks(_, _)
SortedTasks(task_list, left) ==
    IF left = {} THEN <<>>
    ELSE LET first == CHOOSE t \in left : \A u \in left :
                          \/ task_list[t].priority > task_list[u].priority
                          \/ /\ task_list[t].priority = task_list[u].priority
                             /\ t <= u
         IN  <<first>> \o SortedTasks(task_list, left \ {first})

\* GreedyAlgorithm.route from the k-th task of the sorted order on: the
\* cheapest available pool of the preferred region, else the cheapest
\* available pool; the chosen pool's current_load is incremented in place
RECURSIVE GreedyAssign(_, _, _, _, _)
GreedyAssign(task_list, order, k, worker_pools, assignments) ==
    IF k > Len(order)
    THEN [assignments |-> assignments, worker_pools |-> worker_pools]
    ELSE LET t == order[k]
             available == FreePools(worker_pools)
             preferred == {i \in available :
                              worker_pools[i].region = task_list[t].region}
             candidates == IF preferred # {} THEN preferred ELSE available
         IN  IF candidates = {}
             THEN GreedyAssign(task_list, order, k + 1, worker_pools, assignments)
             ELSE LET best == CHOOSE i \in candidates : \A j \in candidates :
                          \/ worker_pools[i].cost_per_unit
                                 < worker_pools[j].cost_per_unit
                          \/ /\ worker_pools[i].cost_per_unit
                                    = worker_pools[j].cost_per_unit
                             /\ i <= j
                  IN  GreedyAssign(task_list, order, k + 1,
                          [worker_pools EXCEPT ![best].current_load = @ + 1],
                          assignments @@ (t :> best))

GreedyRoute(task_list, worker_pools) ==
    GreedyAssign(task_list, SortedTasks(task_list, 1..Len(task_list)), 1, worker_pools,
                 EmptyAssignment)

\* what nx.min_cost_flow(G) can do: return a flow, raise nx.NetworkXError,
\* or raise an exception of another class
SolverOutcomes == {"ok", "NetworkXError", "Exception"}

\* MinCostFlowAlgorithm.route under a given behaviour of the solver. No node
\* of G carries a demand and G has no cycle, so the flow the solver returns
\* is zero on every edge and no task is read as assigned.
MinCostFlowRoute(task_list, worker_pools, outcome) ==
    IF task_list = <<>> \/ worker_pools = <<>>
    THEN [raised |-> FALSE, assignments |-> EmptyAssignment,
          worker_pools |-> worker_pools]
    ELSE CASE outcome = "ok" ->
                [raised |-> FALSE, assignments |-> EmptyAssignment,
                 worker_pools |-> worker_pools]
           [] outcome = "NetworkXError" ->
                [raised |-> FALSE,
                 assignments |-> GreedyRoute(task_list, worker_pools).assignments,
                 worker_pools |-> GreedyRoute(task_list, worker_pools).worker_pools]
           [] OTHER ->
                [raised |-> TRUE, assignments |-> EmptyAssignment,
                 worker_pools |-> worker_pools]

BInit ==
    /\ InitPipeline
    /\ InitCalls
    /\ InitPolicies
    /\ InitLife
    /\ pools = <<>>
    /\ task_queue = NewTaskQueue(0)
    /\ batch \in Batches
    /\ bpools \in BatchPoolLists
    /\ routed = NotRouted

batchframe == <<corevars, task_queue, callvars, polvars, lifevars, refused>>

FIFORouteCall ==
    /\ routed = NotRouted
    /\ routed' = [algorithm |-> "fifo", solver |-> "none", raised |-> FALSE,
                  assignments |-> FIFORoute(batch, bpools)]
    /\ UNCHANGED <<batch, bpools, batchframe>>

MinCostFlowRouteCall(outcome) ==
    /\ routed = NotRouted
    /\ LET r == MinCostFlowRoute(batch, bpools, outcome)
       IN  /\ routed' = [algorithm |-> "min_cost_flow",
                         solver |-> IF batch = <<>> \/ bpools = <<>>
                                    THEN "none" ELSE outcome,
                         raised |-> r.raised, assignments |-> r.assignments]
           /\ bpools' = r.worker_pools
    /\ UNCHANGED <<batch, batchframe>>

BNext ==
    \/ FIFORouteCall
    \/ \E outcome \in SolverOutcomes : MinCostFlowRouteCall(outcome)

BatchSpec == BInit /\ [][BNext]_vars

\* free slots over all the pools of a list
RECURSIVE FreeCapacity(_)
FreeCapacity(worker_pools) ==
    IF worker_pools = <<>> THEN 0
    ELSE Max(0, Head(worker_pools).capacity - Head(worker_pools).current_load)
             + FreeCapacity(Tail(worker_pools))

SolverFailed(outcome) == outcome # "ok"

\* C26: when the solver fails on a batch, whatever it raised, route raises
\* nothing and returns what the greedy algorithm returns, which places as
\* many tasks as the free capacity of the pools allows.
C26_FallbackOnAnyFailure ==
    [][\A outcome \in SolverOutcomes :
        MinCostFlowRouteCall(outcome) /\ SolverFailed(outcome)
            /\ batch # <<>> /\ bpools # <<>>
        => /\ ~routed'.raised
           /\ routed'.assignments = GreedyRoute(batch, bpools).assignments
           /\ Cardinality(DOMAIN routed'.assignments)
                  = IF Len(batch) <= FreeCapacity(bpools)
                    THEN Len(batch) ELSE FreeCapacity(bpools)]_vars

\* C27: the batch FIFO route places every task whose preferred region has a
\* free pool in a pool of that region, places tasks in free pools only, and
\* returns the empty assignment when there is no task, no pool or no free
\* pool.
C27_FIFORoute ==
    routed.algorithm = "fifo" =>
        /\ \A t \in 1..Len(batch) :
              (\E i \in FreePools(bpools) : bpools[i].region = batch[t].region)
              => /\ t \in DOMAIN routed.assignments
                 /\ bpools[routed.assignments[t]].region = batch[t].region
        /\ \A t \in DOMAIN routed.assignments :
              routed.assignments[t] \in FreePools(bpools)
        /\ (batch = <<>> \/ bpools = <<>> \/ FreePools(bpools) = {})
              => routed.assignments = EmptyAssignment

\* two tasks of two regions are each placed in their own region, the first
\* task in the second pool of the list although the first pool is free
C27_Witness ==
    /\ routed.algorithm = "fifo"
    /\ Len(batch) = 2 /\ Len(bpools) = 2
    /\ batch[1].region # batch[2].region
    /\ FreePools(bpools) = {1, 2}
    /\ routed.assignments = <<2, 1>>

\* ------------------------------------------------------ requeue claims
\* what the dispatch loop could write for the task it holds
RunnerWrites == <<tasks, logs, exec, rstats, pools>>

\* C28: from the policy returning none for the dequeued task to the loop
\* being back at its poll, the loop appends that task id once at the tail of
\* the queue and writes nothing else: task rows (status, algorithm_used),
\* logs, executor jobs, counters and pools stay as they were.
C28_RequeueOnly ==
    /\ [][rpc = "process" /\ rpc' = "requeue"
            => UNCHANGED <<RunnerWrites, task_queue>>]_vars
    /\ [][rpc = "requeue" /\ rpc' # "requeue"
            => /\ rpc' = "poll"
               /\ task_queue'.queue = Append(task_queue.queue, rtask)
               /\ UNCHANGED RunnerWrites]_vars

\* a queued task with no algorithm_used and only its created log is back in
\* the queue after the policy returned none for it
C28_Witness ==
    /\ noneReturned
    /\ rpc = "poll"
    /\ \E t \in TaskIds :
        /\ \E i \in 1..Len(task_queue.queue) : task_queue.queue[i] = t
        /\ task_queue.stats.enqueued > Len(tasks)
        /\ tasks[t].status = "queued"
        /\ tasks[t].algorithm_used = Null
        /\ EventTypes(t) = <<"created">>
        /\ exec[t].pc = "none"

\* ------------------------------------------------------ release claims
\* one pool per run, of capacity 1 or of capacity 2
HoldConfigs == { <<SeedEast>>, <<SeedWest>> }

HInit ==
    /\ InitPipeline
    /\ InitCalls
    /\ InitPolicies
    /\ InitLife
    /\ InitBatch
    /\ pools \in HoldConfigs
    /\ task_queue = NewTaskQueue(0)

HoldSpec == HInit /\ [][Next]_vars

\* every executor job that was started has returned
JobsFinished ==
    /\ \E t \in TaskIds : exec[t].pc = "done"
    /\ \A t \in TaskIds : exec[t].pc \in {"none", "done", "aborted"}

\* C29: a job that has claimed goes on to its Release and to nothing else,
\* the Release is on the pool the job claimed on, and once every executor
\* job has returned no pool holds any load.
C29_ClaimReleased ==
    /\ [][\A t \in TaskIds :
            /\ exec[t].pc = "work"
                  => exec'[t].pc \in {"work", "release_commit"}
            /\ exec[t].pc = "release_commit"
                  => /\ exec'[t].pc \in {"release_commit", "done"}
                     /\ exec'[t].pool = exec[t].pool]_vars
    /\ [](JobsFinished => SumLoad(pools) = 0)

\* -------------------------------------------------------- claim claims
\* C30: the commit of a Claim raises the chosen pool's current_load by
\* exactly 1 and sets the task to processing with started_at and with
\* worker_id = the name of that pool; every task seen in processing has
\* worker_id and started_at set.
C30_ClaimCommit ==
    /\ [][\A t \in TaskIds :
            exec[t].pc = "claim_commit" /\ exec'[t].pc = "work"
            => /\ pools'[exec[t].pool].current_load
                      = pools[exec[t].pool].current_load + 1
               /\ tasks'[t].status = "processing"
               /\ tasks'[t].started_at
               /\ tasks'[t].worker_id = pools[exec[t].pool].name]_vars
    /\ [](\A t \in Processing :
            tasks[t].started_at /\ tasks[t].worker_id # Null)

\* ------------------------------------------------- refused-claim claims
\* the pool of job t is at capacity when the job runs its Claim queries
AtGate(t) ==
    /\ exec[t].pc = "claim"
    /\ exec[t].pool \in PoolIds
    /\ pools[exec[t].pool].current_load >= pools[exec[t].pool].capacity

\* C31: a job whose Claim finds the pool at capacity returns at once: it
\* writes no task, pool or log, never enters the work phase and never runs
\* a Release.
C31_RefusedClaim ==
    /\ [][\A t \in TaskIds :
            AtGate(t) /\ exec'[t] # exec[t]
            => /\ exec'[t].pc = "aborted"
               /\ UNCHANGED <<tasks, pools, logs>>]_vars
    /\ [][\A t \in TaskIds :
            exec[t].pc = "aborted" => exec'[t] = exec[t]]_vars

\* a job has returned from a refused Claim while another task holds the
\* pool's only slot; its own task is still queued
C31_Witness ==
    \E t \in TaskIds :
        /\ exec[t].pc = "aborted"
        /\ tasks[t].status = "queued"
        /\ \E u \in TaskIds \ {t} : exec[u].pc = "work" /\ exec[u].pool = exec[t].pool

\* ------------------------------------- the dispatch loop on a failing store
\* the except branch turning the store error into a failure of the task
RunnerStoreError_FailsTask ==
    /\ rpc \in {"process", "commit"}
    /\ rstats.tasks_failed < MaxStoreErrors
    /\ rstats' = [rstats EXCEPT !.tasks_failed = @ + 1]
    /\ tasks' = [tasks EXCEPT ![rtask].status = "failed"]
    /\ rpc' = "poll"
    /\ rtask' = 0
    /\ rpool' = NoPool
    /\ ralg' = Null
    /\ dequeuedUnder' = Null
    /\ UNCHANGED <<logs, pools, task_queue, running, algorithm_type,
                   scheduler, exec, apc, atask, dispatchOrder, noneReturned,
                   aresp, benchvars>>

\* _process_task: a query (rpc = "process") or the commit (rpc = "commit")
\* raises; the session is closed with nothing committed, the except branch
\* bumps tasks_failed and _run goes back to its poll
RunnerStoreError ==
    /\ rpc \in {"process", "commit"}
    /\ rstats.tasks_failed < MaxStoreErrors
    /\ rstats' = [rstats EXCEPT !.tasks_failed = @ + 1]
    /\ rpc' = "poll"
    /\ rtask' = 0
    /\ rpool' = NoPool
    /\ ralg' = Null
    /\ dequeuedUnder' = Null
    /\ UNCHANGED <<tasks, logs, pools, task_queue, running, algorithm_type,
                   scheduler, exec, apc, atask, dispatchOrder, noneReturned,
                   aresp, benchvars>>

FNext ==
    \/ \E r \in TaskRegions, p \in TaskPriorities : CreateTask(r, p)
    \/ CreateLog
    \/ CreateEnqueue
    \/ Start
    \/ RunnerDequeue
    \/ RunnerSelect
    \/ RunnerCommit
    \/ RunnerNoWorker
    \/ RunnerRequeue
    \/ RunnerStoreError
    \/ \E t \in 1..MaxTasks : ExecClaimAbort(t)
    \/ \E t \in 1..MaxTasks : ExecClaimRead(t)
    \/ \E t \in 1..MaxTasks : ExecClaimCommit(t)
    \/ \E t \in 1..MaxTasks, s \in BOOLEAN : ExecReleaseRead(t, s)
    \/ \E t \in 1..MaxTasks : ExecReleaseCommit(t)

FaultSpec == Init /\ [][FNext]_vars

\* the loop leaves a dispatch for its poll having neither committed a
\* scheduled log nor put the id back on the queue
StoreErrorStep ==
    /\ rpc \in {"process", "commit"}
    /\ rpc' = "poll"
    /\ logs' = logs
    /\ task_queue' = task_queue

\* C32: a store exception during a dispatch bumps tasks_failed by one and
\* sends the loop back to its poll; it writes no task, so the task is never
\* made failed by the runner and a task still queued stays queued; failed is
\* only ever written by the Release of an executor job.
C32_StoreErrorCounted ==
    /\ [][StoreErrorStep
            => /\ rstats'.tasks_failed = rstats.tasks_failed + 1
               /\ rstats'.tasks_scheduled = rstats.tasks_scheduled
               /\ rstats'.tasks_processed = rstats.tasks_processed
               /\ UNCHANGED <<tasks, pools, exec>>]_vars
    /\ [](\A t \in TaskIds :
            tasks[t].status = "failed" => exec[t].pc = "done")

\* the loop is back at its poll after a store exception met while it held a
\* queued task, and that task is still queued
C32_Witness ==
    /\ rstats.tasks_failed = 1
    /\ rpc = "poll"
    /\ \E t \in TaskIds :
        /\ tasks[t].status = "queued"
        /\ exec[t].pc = "none"
        /\ \A i \in 1..Len(task_queue.queue) : task_queue.queue[i] # t
        /\ apc = "idle"

\* ------------------------------------------------------- stopping claims
\* Every launched dispatch thread keeps being scheduled: its while test is
\* evaluated, and an iteration ends (the dequeue has a timeout, the back-off
\* is a sleep of one second).
LoopFairness ==
    \A i \in 1..MaxLoops : WF_vars(LoopTest(i)) /\ WF_vars(LoopBody(i))

LiveLifeSpec == LInit /\ [][LNext]_vars /\ LoopFairness

AllExited == \A i \in LoopIds : loops[i] = "exited"

Occurrences(seq, x) == Cardinality({i \in 1..Len(seq) : seq[i] = x})

ScheduledLogs(t) ==
    Cardinality({i \in 1..Len(logs[t]) : logs[t][i].event_type = "scheduled"})

IdHeld(t) ==
    \/ apc \in {"create_log", "create_enqueue"} /\ atask = t
    \/ Occurrences(task_queue.queue, t) >= 1
    \/ rpc \in {"process", "commit", "requeue"} /\ rtask = t
    \/ exec[t].pc \in {"claim", "claim_commit"}

\* C35: every task whose status is queued has its id held by the queue, by
\* the dispatch loop or by an executor job that has not yet run its Claim
\* (or by the handler still admitting it).
C35_NoTaskLost ==
    \A t \in TaskIds : tasks[t].status = "queued" => IdHeld(t)

\* ---------------------------------------------------- log-label claims
\* C36: the algorithm recorded in a task's scheduled log is the task's
\* algorithm_used, also when set_algorithm runs during the dispatch.
C36_LogMatchesLabel ==
    \A t \in TaskIds : \A i \in 1..Len(logs[t]) :
        logs[t][i].event_type = "scheduled"
            => logs[t][i].details.algorithm = tasks[t].algorithm_used

\* ------------------------------------------------------- clamp claims
\* C37: a job that claimed finds current_load >= 1 when it reads the pool
\* for its Release, and its Release commit lowers the pool's current_load by
\* exactly 1: the max(0, .) of the Release never applies.
C37_ClampUnused ==
    /\ [](\A t \in TaskIds :
            exec[t].pc = "release_commit" => exec[t].rload >= 1)
    /\ [][\A t \in TaskIds :
            exec[t].pc = "release_commit" /\ exec'[t].pc = "done"
            => pools'[exec[t].pool].current_load
                   = pools[exec[t].pool].current_load - 1]_vars

\* ------------------------------------------ scheduler/runner.py Dispatcher
\* get_algorithm: the strategies a Dispatcher can hold
DispatchStrategies == {"fifo", "greedy", "min_cost_flow"}

\* self.algorithm.route(task_dicts, pool_dicts): the pool dicts are copies of
\* the rows, so only the returned assignments reach the caller
RouteOf(strategy, task_list, worker_pools) ==
    CASE strategy = "fifo" -> FIFORoute(task_list, worker_pools)
      [] strategy = "greedy" -> GreedyRoute(task_list, worker_pools).assignments
      [] OTHER -> MinCostFlowRoute(task_list, worker_pools, "ok").assignments

\* for task_id, pool_id in assignments.items():
\*     pool_map[pool_id].current_load += 1
CommitLoads(worker_pools, assignments) ==
    [i \in 1..Len(worker_pools) |->
        [worker_pools[i] EXCEPT !.current_load =
            @ + Cardinality({t \in DOMAIN assignments : assignments[t] = i})]]

\* Dispatcher.dispatch(tasks, db): {} for no task or no pool; else route,
\* add one to the load of each assigned pool row, commit
Dispatch(strategy) ==
    /\ routed = NotRouted
    /\ LET assignments ==
               IF batch = <<>> \/ bpools = <<>> THEN EmptyAssignment
               ELSE RouteOf(strategy, batch, bpools)
       IN  /\ routed' = [algorithm |-> strategy, solver |-> "none",
                         raised |-> FALSE, assignments |-> assignments]
           /\ bpools' = CommitLoads(bpools, assignments)
    /\ UNCHANGED <<batch, batchframe>>

DNext == \E strategy \in DispatchStrategies : Dispatch(strategy)

DispatchSpec == BInit /\ [][DNext]_vars

\* C38: after a dispatch has committed the assignments of a batch, no
\* pool's current_load exceeds its capacity, whatever the strategy and the
\* size of the batch.
C38_DispatchWithinCapacity ==
    routed # NotRouted =>
        \A i \in 1..Len(bpools) : bpools[i].current_load <= bpools[i].capacity

\* --------------------------------------- TaskQueue calls, step by step
\* enqueue and dequeue each touch the inner queue.Queue first and the
\* statistics afterwards, under self._lock; other threads run in between.
TInit ==
    /\ InitPipeline
    /\ InitCalls
    /\ InitPolicies
    /\ InitLife
    /\ InitBatch
    /\ pools = <<SeedEast>>
    /\ task_queue \in {NewTaskQueue(0), NewTaskQueue(MaxQueue)}

statframe == <<accepted, returned, lastResult, pipevars>>

\* enqueue: self._queue.put(task_id, block=False) succeeded
PutStep(c) ==
    /\ qpc[c] = "idle"
    /\ callerId <= MaxCalls
    /\ ~QueueFull(task_queue.queue, task_queue.maxsize)
    /\ task_queue' = [task_queue EXCEPT !.queue = QueuePut(@, callerId)]
    /\ callerId' = callerId + 1
    /\ qpc' = [qpc EXCEPT ![c] = "put_stats"]
    /\ UNCHANGED statframe

\* enqueue: put raised queue.Full; False is returned, no statistic changes
PutFull(c) ==
    /\ qpc[c] = "idle"
    /\ callerId <= MaxCalls
    /\ QueueFull(task_queue.queue, task_queue.maxsize)
    /\ callerId' = callerId + 1
    /\ UNCHANGED <<task_queue, qpc, statframe>>

\* the statistics of enqueue kept by adding one to current_size
PutStats_Counting(c) ==
    /\ qpc[c] = "put_stats"
    /\ task_queue' = [task_queue EXCEPT
                         !.stats.enqueued = @ + 1,
                         !.stats.current_size = @ + 1]
    /\ qpc' = [qpc EXCEPT ![c] = "idle"]
    /\ UNCHANGED <<callerId, statframe>>

\* enqueue: with self._lock: enqueued += 1; current_size = qsize()
PutStats(c) ==
    /\ qpc[c] = "put_stats"
    /\ task_queue' = [task_queue EXCEPT
                         !.stats.enqueued = @ + 1,
                         !.stats.current_size = Len(task_queue.queue)]
    /\ qpc' = [qpc EXCEPT ![c] = "idle"]
    /\ UNCHANGED <<callerId, statframe>>

\* dequeue: self._queue.get(block=True, timeout) returned an id
GetStep(c) ==
    /\ qpc[c] = "idle"
    /\ task_queue.queue # <<>>
    /\ task_queue' = [task_queue EXCEPT !.queue = QueueRest(@)]
    /\ qpc' = [qpc EXCEPT ![c] = "get_stats"]
    /\ UNCHANGED <<callerId, statframe>>

\* dequeue: with self._lock: dequeued += 1; current_size = qsize()
GetStats(c) ==
    /\ qpc[c] = "get_stats"
    /\ task_queue' = [task_queue EXCEPT
                         !.stats.dequeued = @ + 1,
                         !.stats.current_size = Len(task_queue.queue)]
    /\ qpc' = [qpc EXCEPT ![c] = "idle"]
    /\ UNCHANGED <<callerId, statframe>>

TNext ==
    \/ \E c \in QClients : PutStep(c)
    \/ \E c \in QClients : PutFull(c)
    \/ \E c \in QClients : PutStats(c)
    \/ GetStep("runner")
    \/ GetStats("runner")

StatSpec == TInit /\ [][TNext]_vars

\* C39: whenever no enqueue and no dequeue is in progress (clear is never
\* called), enqueued - dequeued = current_size = size().
C39_StatsConsistent ==
    (\A c \in QClients : qpc[c] = "idle")
        => /\ task_queue.stats.enqueued - task_queue.stats.dequeued
                  = task_queue.stats.current_size
           /\ task_queue.stats.current_size = Len(task_queue.queue)

\* both threads are idle after three enqueues and two dequeues: one id is
\* left in the queue
C39_Witness ==
    /\ \A c \in QClients : qpc[c] = "idle"
    /\ task_queue.stats.enqueued = 3
    /\ task_queue.stats.dequeued = 2
    /\ Len(task_queue.queue) = 1
====
